---------------------------- MODULE Spec2Model ----------------------------
(***************************************************************************)
(* Lockor: lock-state management and save interception.                    *)
(*                                                                         *)
(* The model follows src/src/lockor-manager.ts (LockorManager), the        *)
(* extension entry point (src/unnamed/part_004, lines 1-350) and           *)
(* updateAllFilePermissions of src/unnamed/part_006.  The host editor, the *)
(* workspace key-value store and the filesystem are the environment: their *)
(* calls succeed or fail as the environment chooses.                       *)
(*                                                                         *)
(* A JavaScript Set<string> is a set; the string[] handed to the store is  *)
(* a bag (an array up to order), so that "p occurs exactly once" is a      *)
(* statement about multiplicity.                                           *)
(***************************************************************************)
EXTENDS Integers, FiniteSets, Sequences, Bags, TLC

\* ------------------------------------------------------------------ bounds

\* Number of files on disk the user works with (the paths "/a", "/b", ...).
NumFiles == 1
\* Number of manager calls (locks, unlocks, level changes) started in one
\* behaviour of the specifications that follow calls across their awaits.
MaxCalls == 3
\* Number of environment failures (store, stat, chmod, artifact write) injected
\* in one behaviour.
MaxFaults == 1
\* The step of the clock, in milliseconds: edits and timers are observed at
\* multiples of it.
TickMs == 1000

\* ------------------------------------------------------- program constants

S_IWUSR == 128
S_IWGRP == 16
S_IWOTH == 2

LOCKED_FILES_KEY == "lockor.lockedFiles"

\* The delay handed to setTimeout by the change listener, in milliseconds.
DebounceMs == 2000

\* ------------------------------------------------------------------ domains

PathName == <<"/a", "/b", "/c", "/d">>
\* Files that exist on disk.
Files == {PathName[i] : i \in 1..NumFiles}
\* Every path a URI can carry; "" names no file.
Paths == Files \cup {""}
Uris == [fsPath : Paths]
NoUri == [none |-> TRUE]
UriOf(p) == [fsPath |-> p]

Levels == {"soft", "ai-aware", "hard"}
\* The mode every file has before Lockor touches it: 0666, so that each of the
\* three write bits is there to be cleared.
InitModes == {438}
\* The modes fs.stat may report for a file nobody has touched: 0444, 0644,
\* 0664, 0666, 0777, and 0100444, 0100755 with the regular-file bit S_IFREG.
DiskModes == {292, 420, 436, 438, 511, 33060, 33261}
\* The bits of a mode: permissions, setuid/setgid/sticky and file type.
ModeBits == {2^i : i \in 0..15}

\* The environment calls that can fail: stat and chmod per file, the store's
\* update, and the write (or delete) of each document.
Faults == ({"stat", "chmod"} \X Files)
              \cup {<<"update", "*">>, <<"writeRule", "*">>, <<"writeStatus", "*">>}

VARIABLES
    lockedFiles,        \* LockorManager.lockedFiles: Set<string>
    workspaceState,     \* the array stored under LOCKED_FILES_KEY
    protectionLevel,    \* configuration lockor.protectionLevel
    showNotifications,  \* configuration lockor.showNotifications
    workspaceFolder,    \* whether vscode.workspace.workspaceFolders[0] exists
    activeEditor,       \* vscode.window.activeTextEditor's document uri, or NoUri
    fileMode,           \* mode bits of every file on disk
    ruleFile,           \* .cursor/rules/lockor.mdc
    statusFile,         \* LOCKOR_STATUS.md
    diagnostics,        \* diagnostics published per path: "none", "one", "many"
    aiContext,          \* context keys set by updateAIContext
    faultsLeft,         \* failures the environment may still inject
    last,               \* what the last handler did and returned
    tracked,            \* paths loaded at construction or locked since, and not unlocked since
    scenario,           \* progress of the lock / query / save / unlock / save scenario
    pattern,            \* what the last two handler runs were, when a claim is about the pair
    timers,             \* the host's pending timers set by the change listener
    notificationDebounce, \* Map<string, NodeJS.Timeout>: the timer handle kept per path, 0 for none
    burst,              \* per path, the burst of edits under way and the warnings it got
    originalMode,       \* mode bits of every file on disk before Lockor touched it
    inflight            \* the manager's asynchronous calls, in the order they were started

vars == <<lockedFiles, workspaceState, protectionLevel, showNotifications,
          workspaceFolder, activeEditor, fileMode, ruleFile, statusFile,
          diagnostics, aiContext, faultsLeft, last, tracked, scenario, pattern,
          timers, notificationDebounce, burst, originalMode, inflight>>

\* The debounce timers and what is recorded about them.
timerVars == <<timers, notificationDebounce, burst>>

\* What the handlers that run to their end in one step leave alone: the
\* record of the modes found on disk, and the calls in flight (there are none).
stepVars == <<originalMode, inflight>>

\* The program's own state and everything it writes.
progVars == <<lockedFiles, workspaceState, fileMode, ruleFile, statusFile,
              diagnostics, aiContext>>
\* The environment's settings, which no manager operation changes.
envVars == <<protectionLevel, showNotifications, workspaceFolder, activeEditor>>

\* ------------------------------------------------- Set<string> and string[]

\* Set.prototype.has
Has(set, key) == key \in set
\* A set rebuilt from the new key alone.
AddReplaces(set, key) == {key}
\* Set.prototype.add
Add(set, key) == set \cup {key}
\* A delete that removes nothing.
DeleteNothing(set, key) == set
\* A delete that clears the set.
DeleteClears(set, key) == {}
\* Set.prototype.delete
Delete(set, key) == set \ {key}
\* Array.from(set): every element once.
ArrayFrom(set) == SetToBag(set)
\* new Set(array): duplicates collapse.
SetFrom(array) == BagToSet(array)
\* How often key occurs in array.
Count(array, key) == CopiesIn(key, array)

\* uriToKey
uriToKey(uri) == uri.fsPath

\* A lookup by prefix (startsWith) instead of by equality: "" is a prefix of
\* every key.
IsFileLockedByPrefix(set, uri) ==
    \E k \in set : k = uriToKey(uri) \/ uriToKey(uri) = ""
\* isFileLocked
IsFileLocked(set, uri) == Has(set, uriToKey(uri))

\* A getLockedFiles that answers from a snapshot: the set as the handler
\* before the last one found it.
GetLockedFilesSnapshot(set) == ArrayFrom(last.before)
\* getLockedFiles
GetLockedFiles(set) == ArrayFrom(set)


\* ------------------------------------------------------------ file modes

\* mode & bit, for a single-bit mask
HasBit(mode, bit) == (mode \div bit) % 2 = 1
\* mode & ~bit
ClearBit(mode, bit) == IF HasBit(mode, bit) THEN mode - bit ELSE mode
\* mode | bit
SetBit(mode, bit) == IF HasBit(mode, bit) THEN mode ELSE mode + bit

\* A read-only mode that clears the owner's write bit alone.
NewModeOwnerOnly(mode, readOnly) ==
    IF readOnly THEN ClearBit(mode, S_IWUSR) ELSE SetBit(mode, S_IWUSR)
\* A chmod to 0444 or 0644, whatever the mode was.
NewModeFixed(mode, readOnly) == IF readOnly THEN 292 ELSE 420
\* setFileReadOnly: the mode handed to chmod
NewMode(mode, readOnly) ==
    IF readOnly
        THEN ClearBit(ClearBit(ClearBit(mode, S_IWUSR), S_IWGRP), S_IWOTH)
        ELSE SetBit(mode, S_IWUSR)

\* setFileReadOnly resolves: stat and chmod both succeed.  F is the set of
\* environment calls that fail during this handler.
SetFileReadOnlyResolves(modes, filePath, F) ==
    /\ filePath \in DOMAIN modes
    /\ <<"stat", filePath>> \notin F
    /\ <<"chmod", filePath>> \notin F

\* setFileReadOnly: the modes on disk once its promise has settled.
SetFileReadOnly(modes, filePath, readOnly, F) ==
    IF SetFileReadOnlyResolves(modes, filePath, F)
        THEN [modes EXCEPT ![filePath] = NewMode(modes[filePath], readOnly)]
        ELSE modes

\* ------------------------------------------------------------- artifacts

\* The workspace folder is "/": the files on disk lie in it.
RelativeName == <<"a", "b", "c", "d">>
\* vscode.workspace.asRelativePath: the path without the folder's prefix; a
\* path outside the folder (here "") is returned as it is.
AsRelativePath(filePath) ==
    IF \E i \in DOMAIN PathName : PathName[i] = filePath
        THEN RelativeName[CHOOSE i \in DOMAIN PathName : PathName[i] = filePath]
        ELSE filePath

\* String.prototype.toUpperCase, on the protection levels
ToUpperCase(level) ==
    CASE level = "soft" -> "SOFT"
      [] level = "ai-aware" -> "AI-AWARE"
      [] level = "hard" -> "HARD"
      [] OTHER -> level

Absent == [exists |-> FALSE, files |-> {}, level |-> "none"]
\* The content written to the rule document and to the status document: the
\* relative path of every locked file, and the protection level in capitals.
Document(set, level) ==
    [exists |-> TRUE, files |-> {AsRelativePath(p) : p \in set}, level |-> ToUpperCase(level)]

\* An updateCursorRules that leaves the document in place when no file is
\* locked.
UpdateCursorRulesNeverDeletes(doc, set, level, folder, F) ==
    IF ~folder THEN doc
    ELSE IF <<"writeRule", "*">> \in F THEN doc
    ELSE IF set = {} THEN doc
    ELSE Document(set, level)
\* updateCursorRules: the rule document after the call.
UpdateCursorRules(doc, set, level, folder, F) ==
    IF ~folder THEN doc
    ELSE IF <<"writeRule", "*">> \in F THEN doc
    ELSE IF set = {} THEN Absent
    ELSE Document(set, level)

\* An updateWorkspaceStatus that is not reached once the rule document could
\* not be written.
UpdateWorkspaceStatusUnlessRuleFailed(doc, set, level, folder, F) ==
    IF ~folder THEN doc
    ELSE IF <<"writeRule", "*">> \in F \/ <<"writeStatus", "*">> \in F THEN doc
    ELSE IF set = {} THEN Absent
    ELSE Document(set, level)
\* updateWorkspaceStatus: the status document after the call.
UpdateWorkspaceStatus(doc, set, level, folder, F) ==
    IF ~folder THEN doc
    ELSE IF <<"writeStatus", "*">> \in F THEN doc
    ELSE IF set = {} THEN Absent
    ELSE Document(set, level)

\* One more diagnostic published for a path.
OneMore(n) == IF n = "none" THEN "one" ELSE "many"

\* updateWorkspaceDiagnostics: a new collection is created and cleared, and
\* gets one diagnostic per locked file; the collections created by earlier
\* calls are neither cleared nor disposed.
UpdateWorkspaceDiagnostics(diags, set) ==
    [p \in Paths |-> IF p \in set THEN OneMore(diags[p]) ELSE diags[p]]

\* updateAIContext: the context keys after the call.  aiGuidance and
\* userIntent are set and cleared together with lockIntent; currentFilePath
\* and currentFileName repeat the active editor and are left out.
UpdateAIContext(ctx, editor, set, level) ==
    LET isCurrentFileLocked == IF editor # NoUri THEN IsFileLocked(set, editor) ELSE FALSE
    IN  [currentFileLocked |-> isCurrentFileLocked,
         hasLockedFiles    |-> Cardinality(set) > 0,
         lockedFileCount   |-> Cardinality(set),
         protectionLevel   |-> level,
         fileUntouchable   |-> IF isCurrentFileLocked
                                  THEN level = "ai-aware" \/ level = "hard"
                                  ELSE FALSE,
         lockIntent        |-> IF isCurrentFileLocked THEN "preserve-as-is" ELSE "null"]


\* ------------------------------------------------------- workspace state

\* workspaceState.get(LOCKED_FILES_KEY, defaultValue)
Get(store, defaultValue) == IF store.defined THEN store.array ELSE defaultValue

\* A constructor that does not read the store.
LoadNothing(store) == {}
\* loadLockedFiles: the set built from the stored array, [] when none is stored.
LoadLockedFiles(store) == SetFrom(Get(store, EmptyBag))

\* saveLockedFiles: the array handed to workspaceState.update
FilesArray(set) == ArrayFrom(set)

\* saveLockedFiles: the store after workspaceState.update(LOCKED_FILES_KEY,
\* Array.from(lockedFiles)); the update is not awaited, and a rejected update
\* leaves the store as it was.
SaveLockedFiles(store, set, F) ==
    IF <<"update", "*">> \in F
        THEN store
        ELSE [defined |-> TRUE, array |-> FilesArray(set)]

\* ------------------------------------------------------ lock status info

\* A canAIModify that looks at the lock alone.
CanAIModifyIgnoresLevel(isCurrentFileLocked, level) == ~isCurrentFileLocked
\* getLockStatusInfo: canAIModify
CanAIModify(isCurrentFileLocked, level) == ~isCurrentFileLocked \/ level = "soft"

\* getLockStatusInfo: the object returned.  activeFile is null (NoUri) without
\* an active editor; fileName, aiGuidance, userIntent and aiMessage repeat
\* path, isLocked and totalLockedFiles and are left out.
GetLockStatusInfo(set, editor, level) ==
    LET files == GetLockedFiles(set)
        isCurrentFileLocked == IF editor # NoUri THEN IsFileLocked(set, editor) ELSE FALSE
    IN  [activeFile |-> IF editor # NoUri
                           THEN [path            |-> editor.fsPath,
                                 isLocked        |-> isCurrentFileLocked,
                                 protectionLevel |-> level,
                                 canAIModify     |-> CanAIModify(isCurrentFileLocked, level)]
                           ELSE NoUri,
         lockedFiles      |-> files,
         totalLockedFiles |-> BagCardinality(files),
         protectionLevel  |-> level]

\* --------------------------------------------------- what a handler reports

\* What getLockStatusInfo returns when nothing has been asked.
NoInfo == [none |-> TRUE]

\* The record of one handler run: the entry point (op), the manager method it
\* reached (call), the key it was about, its outcome (result, returned), the
\* manager's sub-operations it invoked (calls), the array it handed to the
\* store (written) and whether that update resolved (stored), the messages
\* shown, the locked set before it ran, whether the host went on to persist
\* the document (saved), the environment calls that failed under it (failed),
\* whether its promise rejected (rejected), and the array (list) or the
\* object (info) it returned.
Report(op, call, key, result, calls, written, messages) ==
    [op |-> op, call |-> call, key |-> key, result |-> result,
     returned |-> FALSE, calls |-> calls, written |-> written, stored |-> FALSE,
     messages |-> messages, before |-> lockedFiles, saved |-> FALSE,
     failed |-> {}, rejected |-> FALSE, list |-> EmptyBag, info |-> NoInfo]

\* Whether the store holds the array the handler handed to it.
Stored(r, store) == store.defined /\ store.array = r.written

\* The sub-operations lockFile and unlockFile invoke once the set has changed.
MutationCalls(level) ==
    {"saveLockedFiles", "refreshStatusBar", "updateAIContext", "updateCursorRules",
     "updateWorkspaceDiagnostics", "updateFileLockMarkers", "updateWorkspaceStatus"}
        \cup (IF level = "hard" THEN {"setFileReadOnly"} ELSE {})

\* ------------------------------------------------------ LockorManager

\* The failures of F that strike lockFile or unlockFile of filePath, that is,
\* the failing calls the method makes: the store's update; under `hard`,
\* stat and, once stat has succeeded, chmod of the path; with a workspace
\* folder, the write (or delete) of the rule and of the status document.
Struck(F, level, filePath, folder) ==
    {f \in F : \/ f = <<"update", "*">>
               \/ level = "hard" /\ f = <<"stat", filePath>>
               \/ level = "hard" /\ f = <<"chmod", filePath>> /\ <<"stat", filePath>> \notin F
               \/ folder /\ f \in {<<"writeRule", "*">>, <<"writeStatus", "*">>}}

\* A block whose catch throws again what it caught.
Rethrown(thrown) == thrown
\* try { ... } catch (error) { console.warn(...) }: what is thrown inside
\* does not leave the block.
Caught(thrown) == FALSE

\* A saveLockedFiles that awaits the store's update.
SaveLockedFilesAwaited(F) == <<"update", "*">> \in F
\* saveLockedFiles throws: never, the promise workspaceState.update returns
\* is dropped, so its rejection does not reach the caller.
SaveLockedFilesThrows(F) == FALSE

\* Whether the promise of lockFile or unlockFile rejects, once the set has
\* changed: the permission change and every artifact write sit in a
\* try/catch of their own.
MutationRejects(modes, level, filePath, folder, F) ==
    \/ SaveLockedFilesThrows(F)
    \/ Caught(level = "hard" /\ ~SetFileReadOnlyResolves(modes, filePath, F))
    \/ Caught(folder /\ <<"writeRule", "*">> \in F)
    \/ Caught(folder /\ <<"writeStatus", "*">> \in F)

\* lockFile, the key is already in the set: a notice, and nothing else.
LockFileAlready(uri, op) ==
    /\ UNCHANGED progVars
    /\ last' = Report(op, "lockFile", uriToKey(uri), "already locked", {},
                      EmptyBag, {"is already locked"})

\* lockFile, the key is new: add, persist, protect, notify, regenerate.
LockFileNew(uri, F, op) ==
    LET key == uriToKey(uri) IN
    /\ lockedFiles' = Add(lockedFiles, key)
    /\ workspaceState' = SaveLockedFiles(workspaceState, lockedFiles', F)
    /\ fileMode' = IF protectionLevel = "hard"
                      THEN SetFileReadOnly(fileMode, uri.fsPath, TRUE, F)
                      ELSE fileMode
    /\ aiContext' = UpdateAIContext(aiContext, activeEditor, lockedFiles', protectionLevel)
    /\ ruleFile' = UpdateCursorRules(ruleFile, lockedFiles', protectionLevel,
                                     workspaceFolder, F)
    /\ diagnostics' = UpdateWorkspaceDiagnostics(diagnostics, lockedFiles')
    /\ statusFile' = UpdateWorkspaceStatus(statusFile, lockedFiles', protectionLevel,
                                           workspaceFolder, F)
    /\ last' = [Report(op, "lockFile", key, "locked", MutationCalls(protectionLevel),
                       FilesArray(lockedFiles'),
                       IF showNotifications THEN {"is now locked"} ELSE {})
                   EXCEPT !.stored = <<"update", "*">> \notin F,
                          !.failed = Struck(F, protectionLevel, uri.fsPath, workspaceFolder),
                          !.rejected = MutationRejects(fileMode, protectionLevel, uri.fsPath,
                                                       workspaceFolder, F)]

\* lockFile without its membership test.
LockFileNoCheck(uri, F, op) == LockFileNew(uri, F, op)
\* lockFile
LockFile(uri, F, op) ==
    IF Has(lockedFiles, uriToKey(uri))
        THEN LockFileAlready(uri, op)
        ELSE LockFileNew(uri, F, op)

\* unlockFile, the key is not in the set: a notice, and nothing else.
UnlockFileNotLocked(uri, op) ==
    /\ UNCHANGED progVars
    /\ last' = Report(op, "unlockFile", uriToKey(uri), "not locked", {},
                      EmptyBag, {"is not locked"})

\* unlockFile, the key is in the set: delete, persist, unprotect, notify, regenerate.
UnlockFileLocked(uri, F, op) ==
    LET key == uriToKey(uri) IN
    /\ lockedFiles' = Delete(lockedFiles, key)
    /\ workspaceState' = SaveLockedFiles(workspaceState, lockedFiles', F)
    /\ fileMode' = IF protectionLevel = "hard"
                      THEN SetFileReadOnly(fileMode, uri.fsPath, FALSE, F)
                      ELSE fileMode
    /\ aiContext' = UpdateAIContext(aiContext, activeEditor, lockedFiles', protectionLevel)
    /\ ruleFile' = UpdateCursorRules(ruleFile, lockedFiles', protectionLevel,
                                     workspaceFolder, F)
    /\ diagnostics' = UpdateWorkspaceDiagnostics(diagnostics, lockedFiles')
    /\ statusFile' = UpdateWorkspaceStatus(statusFile, lockedFiles', protectionLevel,
                                           workspaceFolder, F)
    /\ last' = [Report(op, "unlockFile", key, "unlocked", MutationCalls(protectionLevel),
                       FilesArray(lockedFiles'),
                       IF showNotifications THEN {"is now unlocked"} ELSE {})
                   EXCEPT !.stored = <<"update", "*">> \notin F,
                          !.failed = Struck(F, protectionLevel, uri.fsPath, workspaceFolder),
                          !.rejected = MutationRejects(fileMode, protectionLevel, uri.fsPath,
                                                       workspaceFolder, F)]

\* unlockFile without its membership test.
UnlockFileNoCheck(uri, F, op) == UnlockFileLocked(uri, F, op)
\* unlockFile
UnlockFile(uri, F, op) ==
    IF ~Has(lockedFiles, uriToKey(uri))
        THEN UnlockFileNotLocked(uri, op)
        ELSE UnlockFileLocked(uri, F, op)

\* A toggle that always locks.
ToggleAlwaysLocks(uri, F, op) == LockFile(uri, F, op)
\* toggleFileLock
ToggleFileLock(uri, F, op) ==
    IF IsFileLocked(lockedFiles, uri)
        THEN UnlockFile(uri, F, op)
        ELSE LockFile(uri, F, op)


\* The failures of F that strike updateAllFilePermissions: stat and, once
\* stat has succeeded, chmod of a locked path; with a workspace folder, the
\* write (or delete) of the rule and of the status document.
StruckAll(F, set, folder) ==
    {f \in F : \/ f[1] = "stat" /\ f[2] \in set
               \/ f[1] = "chmod" /\ f[2] \in set /\ <<"stat", f[2]>> \notin F
               \/ folder /\ f \in {<<"writeRule", "*">>, <<"writeStatus", "*">>}}

\* Whether the promise of updateAllFilePermissions rejects: each path's
\* permission change and every artifact write sit in a try/catch of their own.
UpdateAllRejects(modes, set, folder, F) ==
    \/ \E p \in set : Caught(~SetFileReadOnlyResolves(modes, p, F))
    \/ Caught(folder /\ <<"writeRule", "*">> \in F)
    \/ Caught(folder /\ <<"writeStatus", "*">> \in F)

\* An updateAllFilePermissions with one try/catch around the whole loop, met
\* by a failing path first: no path is processed; the artifacts follow.
UpdateAllFilePermissionsOneCatch(F) ==
    /\ fileMode' = [p \in DOMAIN fileMode |->
                       IF /\ p \in lockedFiles
                          /\ \A q \in lockedFiles : SetFileReadOnlyResolves(fileMode, q, F)
                           THEN SetFileReadOnly(fileMode, p, protectionLevel' = "hard", F)[p]
                           ELSE fileMode[p]]
    /\ ruleFile' = UpdateCursorRules(ruleFile, lockedFiles, protectionLevel',
                                     workspaceFolder, F)
    /\ diagnostics' = UpdateWorkspaceDiagnostics(diagnostics, lockedFiles)
    /\ statusFile' = UpdateWorkspaceStatus(statusFile, lockedFiles, protectionLevel',
                                           workspaceFolder, F)
    /\ UNCHANGED <<lockedFiles, workspaceState, aiContext>>

\* updateAllFilePermissions: every locked path is made read-only under `hard`
\* and owner-writable otherwise, each in its own try/catch; then the artifacts
\* are regenerated.  The set and the store are left alone.
UpdateAllFilePermissions(F) ==
    /\ fileMode' = [p \in DOMAIN fileMode |->
                       IF p \in lockedFiles
                           THEN SetFileReadOnly(fileMode, p, protectionLevel' = "hard", F)[p]
                           ELSE fileMode[p]]
    /\ ruleFile' = UpdateCursorRules(ruleFile, lockedFiles, protectionLevel',
                                     workspaceFolder, F)
    /\ diagnostics' = UpdateWorkspaceDiagnostics(diagnostics, lockedFiles)
    /\ statusFile' = UpdateWorkspaceStatus(statusFile, lockedFiles, protectionLevel',
                                           workspaceFolder, F)
    /\ UNCHANGED <<lockedFiles, workspaceState, aiContext>>

\* ---------------------------------------------------------- save handler

\* The level the save listener decides by: read from the configuration
\* inside the listener, on every save.
SaveLevelCached == aiContext.protectionLevel
SaveLevel == protectionLevel

\* A listener whose waitUntil sits inside `if (showNotifications)`.
OnWillSaveVetoWhenNotifying(set, level, notify, uri) ==
    IF IsFileLocked(set, uri) /\ level # "soft" /\ notify
        THEN [waitUntil |-> "rejected", messages |-> {"save blocked", "Unlock File"}]
        ELSE [waitUntil |-> "none", messages |-> {}]
\* A listener that blocks every locked document, whatever the level.
OnWillSaveIgnoresLevel(set, level, notify, uri) ==
    IF IsFileLocked(set, uri)
        THEN [waitUntil |-> "rejected",
              messages |-> IF notify THEN {"save blocked", "Unlock File"} ELSE {}]
        ELSE [waitUntil |-> "none", messages |-> {}]
\* The onWillSaveTextDocument listener: what it hands to event.waitUntil
\* ("rejected": a promise that rejects; "none": nothing) and what it shows.
OnWillSaveTextDocument(set, level, notify, uri) ==
    IF IsFileLocked(set, uri)
        THEN IF level = "soft"
                 THEN [waitUntil |-> "none",
                       messages |-> IF notify THEN {"save allowed", "Unlock File"} ELSE {}]
                 ELSE [waitUntil |-> "rejected",
                       messages |-> IF notify THEN {"save blocked", "Unlock File"} ELSE {}]
        ELSE [waitUntil |-> "none", messages |-> {}]

\* The host's side of the save-event hook: the document is persisted unless
\* a listener vetoed the save.
HostSaves(waitUntil) == waitUntil = "none"

\* ------------------------------------------------------------- scenario

Idle == [stage |-> 0, key |-> "", ok |-> TRUE]

\* The monitor of the scenario lock(p), isFileLocked(p), save(p), unlock(p),
\* save(p) under `ai-aware`, each step directly after the one before: the
\* stage reached, and whether every outcome so far was the expected one.
ScenarioStep(sc, r, level) ==
    IF level # "ai-aware" THEN Idle
    ELSE IF sc.stage = 1 /\ r.call = "isFileLocked" /\ r.key = sc.key
        THEN [stage |-> 2, key |-> sc.key, ok |-> r.returned]
    ELSE IF sc.stage = 2 /\ r.op = "onWillSaveTextDocument" /\ r.key = sc.key
        THEN [stage |-> 3, key |-> sc.key,
              ok |-> sc.ok /\ r.result = "rejected" /\ ~r.saved]
    ELSE IF sc.stage = 3 /\ r.call = "unlockFile" /\ r.key = sc.key
        THEN [stage |-> 4, key |-> sc.key, ok |-> sc.ok]
    ELSE IF sc.stage = 4 /\ r.op = "onWillSaveTextDocument" /\ r.key = sc.key
        THEN [stage |-> 5, key |-> sc.key, ok |-> sc.ok /\ r.result = "none" /\ r.saved]
    ELSE IF r.call = "lockFile"
        THEN [stage |-> 1, key |-> r.key, ok |-> TRUE]
    ELSE Idle

\* The pairs of consecutive handler runs some claim is about: lock then
\* unlock of one key, two toggles of one key, a save right after a change of
\* the protection level (with the level changed from), a restart right after
\* a lock or unlock whose array the store took.
PatternStep(r0, r1) ==
    (IF r0.call = "lockFile" /\ r1.call = "unlockFile" /\ r0.key = r1.key
        THEN {<<"lock-unlock", r1.key>>} ELSE {})
    \cup
    (IF /\ r0.op = "lockor.toggleLock" /\ r0.call # "none"
        /\ r1.op = "lockor.toggleLock" /\ r1.call # "none"
        /\ r0.key = r1.key
        THEN {<<"toggle-toggle", r1.key>>} ELSE {})
    \cup
    (IF /\ r0.op = "onDidChangeConfiguration" /\ r0.call = "updateAllFilePermissions"
        /\ r1.op = "onWillSaveTextDocument"
        THEN {<<"change-save", r0.result>>} ELSE {})
    \cup
    (IF r0.call \in {"lockFile", "unlockFile"} /\ r0.stored /\ r1.op = "activate"
        THEN {<<"write-restart", r0.key>>} ELSE {})

\* ------------------------------------------------------------ the steps

\* The failures the environment injects into one handler run.
FaultSets == {F \in SUBSET Faults : Cardinality(F) <= faultsLeft}

\* What is recorded about every handler, as it runs or as it starts.
Observed(F) ==
    /\ faultsLeft' = faultsLeft - Cardinality(F)
    /\ tracked' = IF last'.call = "lockFile" THEN tracked \cup {last'.key}
                  ELSE IF last'.call = "unlockFile" THEN tracked \ {last'.key}
                  ELSE tracked
    /\ scenario' = ScenarioStep(scenario, last', protectionLevel')
    /\ pattern' = PatternStep(last, last')

\* What every handler run leaves behind besides its own effects.
Monitored(F) ==
    /\ Observed(F)
    /\ UNCHANGED stepVars

\* A handler run that cancels every pending timer.
RanCancelsTimers(F) ==
    /\ Monitored(F)
    /\ timers' = {}
    /\ UNCHANGED <<notificationDebounce, burst>>
\* A handler run that neither sets nor clears a timer.
Ran(F) ==
    /\ Monitored(F)
    /\ UNCHANGED timerVars

\* A handler that found nothing to act on.
Nothing(op, message) ==
    /\ UNCHANGED progVars
    /\ last' = Report(op, "none", "", "no target", {}, EmptyBag, {message})

\* command lockor.lockFile
ExecLockFile ==
    \E F \in FaultSets :
        /\ IF activeEditor # NoUri
              THEN LockFile(activeEditor, F, "lockor.lockFile")
              ELSE Nothing("lockor.lockFile", "No active file to lock")
        /\ UNCHANGED envVars
        /\ Ran(F)

\* command lockor.unlockFile
ExecUnlockFile ==
    \E F \in FaultSets :
        /\ IF activeEditor # NoUri
              THEN UnlockFile(activeEditor, F, "lockor.unlockFile")
              ELSE Nothing("lockor.unlockFile", "No active file to unlock")
        /\ UNCHANGED envVars
        /\ Ran(F)

\* command lockor.toggleLock, from the context menu (arg a uri) or the
\* command palette (arg NoUri)
ExecToggleLock ==
    \E arg \in Uris \cup {NoUri}, F \in FaultSets :
        LET targetUri == IF arg # NoUri THEN arg ELSE activeEditor IN
        /\ IF targetUri # NoUri
              THEN ToggleFileLock(targetUri, F, "lockor.toggleLock")
              ELSE Nothing("lockor.toggleLock", "No file selected to toggle lock")
        /\ UNCHANGED envVars
        /\ Ran(F)

\* command lockor.showLockedFiles, the user picking one of the locked files
ExecShowLockedFiles ==
    \E key \in lockedFiles, F \in FaultSets :
        /\ UnlockFile(UriOf(key), F, "lockor.showLockedFiles")
        /\ UNCHANGED envVars
        /\ Ran(F)

\* The "Unlock File" button of the message the save handler or a debounce
\* timer has just shown.
ClickUnlockFile ==
    \E F \in FaultSets :
        /\ last.op \in {"onWillSaveTextDocument", "setTimeout"}
        /\ "Unlock File" \in last.messages
        /\ UnlockFile(UriOf(last.key), F, "Unlock File")
        /\ UNCHANGED envVars
        /\ Ran(F)

\* command lockor.isFileLocked
ExecIsFileLocked ==
    \E arg \in Uris \cup {NoUri} :
        LET targetUri == IF arg # NoUri THEN arg ELSE activeEditor IN
        /\ last' = IF targetUri # NoUri
                      THEN [Report("lockor.isFileLocked", "isFileLocked", uriToKey(targetUri),
                                   "returned", {}, EmptyBag, {})
                               EXCEPT !.returned = IsFileLocked(lockedFiles, targetUri)]
                      ELSE Report("lockor.isFileLocked", "none", "", "returned", {},
                                  EmptyBag, {})
        /\ UNCHANGED progVars
        /\ UNCHANGED envVars
        /\ Ran({})

\* command lockor.getLockedFiles
ExecGetLockedFiles ==
    /\ last' = [Report("lockor.getLockedFiles", "getLockedFiles", "", "returned", {},
                       EmptyBag, {})
                   EXCEPT !.list = GetLockedFiles(lockedFiles)]
    /\ UNCHANGED progVars
    /\ UNCHANGED envVars
    /\ Ran({})

\* command lockor.getLockStatusInfo
ExecGetLockStatusInfo ==
    /\ last' = [Report("lockor.getLockStatusInfo", "getLockStatusInfo",
                       IF activeEditor # NoUri THEN uriToKey(activeEditor) ELSE "",
                       "returned", {}, EmptyBag, {})
                   EXCEPT !.info = GetLockStatusInfo(lockedFiles, activeEditor,
                                                     protectionLevel)]
    /\ UNCHANGED progVars
    /\ UNCHANGED envVars
    /\ Ran({})

\* The host is about to save a document.
WillSaveTextDocument ==
    \E doc \in Uris :
        LET d == OnWillSaveTextDocument(lockedFiles, SaveLevel, showNotifications, doc) IN
        /\ last' = [Report("onWillSaveTextDocument", "none", uriToKey(doc), d.waitUntil,
                           {}, EmptyBag, d.messages)
                       EXCEPT !.saved = HostSaves(d.waitUntil)]
        /\ UNCHANGED progVars
        /\ UNCHANGED envVars
        /\ Ran({})

\* The configuration becomes (level, notify); the onDidChangeConfiguration
\* listener runs.
ConfigurationChanged(level, notify, F) ==
        /\ <<level, notify>> # <<protectionLevel, showNotifications>>
        /\ protectionLevel' = level
        /\ showNotifications' = notify
        /\ UNCHANGED <<workspaceFolder, activeEditor>>
        /\ IF level # protectionLevel
              THEN /\ UpdateAllFilePermissions(F)
                   /\ last' = [Report("onDidChangeConfiguration", "updateAllFilePermissions", "",
                                      protectionLevel,
                                      {"setFileReadOnly", "updateCursorRules",
                                       "updateWorkspaceDiagnostics", "updateFileLockMarkers",
                                       "updateWorkspaceStatus"},
                                      EmptyBag,
                                      IF notify /\ lockedFiles # {}
                                          THEN {"Protection level changed"} ELSE {})
                                  EXCEPT !.failed = StruckAll(F, lockedFiles, workspaceFolder),
                                         !.rejected = UpdateAllRejects(fileMode, lockedFiles,
                                                                       workspaceFolder, F)]
              ELSE /\ UNCHANGED progVars
                   /\ last' = Report("onDidChangeConfiguration", "none", "", protectionLevel,
                                     {}, EmptyBag, {})
        /\ Ran(F)

\* The user changes lockor.protectionLevel or lockor.showNotifications.
ChangeConfiguration ==
    \E level \in Levels, notify \in BOOLEAN, F \in FaultSets :
        ConfigurationChanged(level, notify, F)

\* The user switches lockor.showNotifications on or off.
ChangeShowNotifications == ConfigurationChanged(protectionLevel, ~showNotifications, {})

\* The user changes the configuration, never choosing `hard`.
ChangeLevelNotHard ==
    \E level \in Levels \ {"hard"}, notify \in BOOLEAN :
        ConfigurationChanged(level, notify, {})

\* The active editor changes; the onDidChangeActiveTextEditor listener runs.
ChangeActiveTextEditor ==
    \E editor \in Uris \cup {NoUri} :
        /\ editor # activeEditor
        /\ activeEditor' = editor
        /\ aiContext' = UpdateAIContext(aiContext, editor, lockedFiles, protectionLevel)
        /\ last' = Report("onDidChangeActiveTextEditor", "none", "", "updated",
                          {"updateStatusBar", "updateAIContext"}, EmptyBag, {})
        /\ UNCHANGED <<lockedFiles, workspaceState, fileMode, ruleFile, statusFile, diagnostics>>
        /\ UNCHANGED <<protectionLevel, showNotifications, workspaceFolder>>
        /\ Ran({})

\* ------------------------------------------------------ calls in flight
\*
\* lockFile, unlockFile and updateAllFilePermissions followed across their
\* awaits.  A call runs without interruption from one await to the next; a
\* step of the model is one such run: the start of a call up to its first
\* pending I/O, or the return of the pending I/O and what the call does up
\* to the next one.  fs.stat reads the mode, and fs.chmod, writeFile and
\* delete take effect, when they return; the environment returns the pending
\* calls in any order.  The two createDirectory calls, between which the
\* call reads and writes nothing, are one I/O (pc "mkdir").

\* What a step of a call reads and writes.
World ==
    [set |-> lockedFiles, modes |-> fileMode, rule |-> ruleFile, status |-> statusFile,
     diags |-> diagnostics, ctx |-> aiContext]

\* Some call started earlier has not completed.
Busy == \E i \in DOMAIN inflight : inflight[i].pc # "done"

\* A call as it starts: the method, the path it is about (for
\* updateAllFilePermissions, the path of the loop's current round), the
\* readOnly argument it hands to setFileReadOnly, the mode it will hand to
\* chmod, the content of the write it has pending (Absent: a delete), the
\* paths its loop has visited, whether its promise has rejected, and
\* whether another call was in flight when it started.
NewCall(call, key, readOnly) ==
    [call |-> call, key |-> key, pc |-> "done", readOnly |-> readOnly, mode |-> 0,
     doc |-> Absent, visited |-> {}, rejected |-> FALSE, overlapped |-> Busy]

\* updateWorkspaceStatus up to its await: without a workspace folder it
\* returns, and the call is complete; with one, the delete or the write of
\* the content built from the set and the level of this moment is pending.
EnterStatus(c, w, level) ==
    IF workspaceFolder
        THEN [w |-> w,
              c |-> [c EXCEPT !.pc = "writeStatus",
                              !.doc = UpdateWorkspaceStatus(w.status, w.set, level, TRUE, {})]]
        ELSE [w |-> w, c |-> [c EXCEPT !.pc = "done"]]

\* Past updateCursorRules: updateWorkspaceDiagnostics, updateFileLockMarkers
\* (addVisibleMarkers is off), then updateWorkspaceStatus.
AfterRules(c, w, level) ==
    EnterStatus(c, [w EXCEPT !.diags = UpdateWorkspaceDiagnostics(@, w.set)], level)

\* updateCursorRules up to its first await: createDirectory is pending, or,
\* without a workspace folder, the method has returned.
EnterRules(c, w, level) ==
    IF workspaceFolder
        THEN [w |-> w, c |-> [c EXCEPT !.pc = "mkdir"]]
        ELSE AfterRules(c, w, level)

\* lockFile and unlockFile past the permission change: the message,
\* onLockStateChanged, then the artifacts.
Notify(c, w, level) ==
    EnterRules(c, [w EXCEPT !.ctx = UpdateAIContext(@, activeEditor, w.set, level)], level)

\* setFileReadOnly(filePath, readOnly) up to its await: fs.stat is pending.
EnterStat(c, filePath) ==
    [c EXCEPT !.pc = "stat", !.key = filePath, !.visited = @ \cup {filePath}]

\* No path is left for the loop.
NoPick == "?"
\* The paths the loop of updateAllFilePermissions may take next: the locked
\* paths it has not visited (a Set is iterated live).
Picks(c, w) ==
    IF c.call = "updateAllFilePermissions" /\ w.set \ c.visited # {}
        THEN w.set \ c.visited
        ELSE {NoPick}

\* The head of the loop of updateAllFilePermissions: the next path, or the
\* artifacts once every locked path has been visited.
NextPath(c, w, level, pick) ==
    IF pick \in w.set \ c.visited
        THEN [w |-> w, c |-> EnterStat(c, pick)]
        ELSE EnterRules(c, w, level)

\* Past the permission change of a path.
AfterPermission(c, w, level, pick) ==
    IF c.call = "updateAllFilePermissions"
        THEN NextPath(c, w, level, pick)
        ELSE Notify(c, w, level)

\* setFileReadOnly rejected, inside its try/catch: the call goes on, unless
\* the rejection leaves the block.
PermissionFailed(c, w, level, pick) ==
    IF Caught(TRUE)
        THEN [w |-> w, c |-> [c EXCEPT !.pc = "done", !.rejected = TRUE]]
        ELSE AfterPermission(c, w, level, pick)

\* The pending I/O of call c returns (ok: with success): its effect, and the
\* call up to its next await.  level: the configured level at this moment.
Resume(c, w, level, ok, pick) ==
    CASE c.pc = "stat" ->
            IF ok /\ c.key \in DOMAIN w.modes
                THEN [w |-> w,
                      c |-> [c EXCEPT !.pc = "chmod",
                                      !.mode = NewMode(w.modes[c.key], c.readOnly)]]
                ELSE PermissionFailed(c, w, level, pick)
      [] c.pc = "chmod" ->
            IF ok
                THEN AfterPermission(c, [w EXCEPT !.modes[c.key] = c.mode], level, pick)
                ELSE PermissionFailed(c, w, level, pick)
      [] c.pc = "mkdir" ->
            [w |-> w,
             c |-> [c EXCEPT !.pc = "writeRule",
                             !.doc = UpdateCursorRules(w.rule, w.set, level, TRUE, {})]]
      [] c.pc = "writeRule" ->
            AfterRules(c, IF ok THEN [w EXCEPT !.rule = c.doc] ELSE w, level)
      [] c.pc = "writeStatus" ->
            [w |-> IF ok THEN [w EXCEPT !.status = c.doc] ELSE w,
             c |-> [c EXCEPT !.pc = "done"]]

\* What a step of a call has written, besides the set and the store.
Written(r) ==
    /\ fileMode' = r.w.modes
    /\ ruleFile' = r.w.rule
    /\ statusFile' = r.w.status
    /\ diagnostics' = r.w.diags
    /\ aiContext' = r.w.ctx

\* lockFile or unlockFile past its membership test, up to its first await:
\* the set is changed and handed to the store, the level is read.
StartMutation(call, uri, op) ==
    LET key == uriToKey(uri)
        set == IF call = "lockFile" THEN Add(lockedFiles, key) ELSE Delete(lockedFiles, key)
        c == NewCall(call, key, call = "lockFile")
        w == [World EXCEPT !.set = set]
        r == IF protectionLevel = "hard"
                 THEN [w |-> w, c |-> EnterStat(c, uri.fsPath)]
                 ELSE Notify(c, w, protectionLevel)
    IN  /\ lockedFiles' = set
        /\ workspaceState' = SaveLockedFiles(workspaceState, set, {})
        /\ Written(r)
        /\ inflight' = Append(inflight, r.c)
        /\ last' = [Report(op, call, key,
                           IF call = "lockFile" THEN "locked" ELSE "unlocked",
                           MutationCalls(protectionLevel), FilesArray(set),
                           IF showNotifications
                               THEN {IF call = "lockFile" THEN "is now locked"
                                                          ELSE "is now unlocked"}
                               ELSE {})
                       EXCEPT !.stored = TRUE]

\* A lockFile whose membership test is separated from its mutation by a
\* suspension: it tests the set as it was when the call before it started.
StartLockFileTestsEarly(uri, op) ==
    IF Has(last.before, uriToKey(uri))
        THEN /\ LockFileAlready(uri, op)
             /\ inflight' = Append(inflight, NewCall("lockFile", uriToKey(uri), TRUE))
        ELSE StartMutation("lockFile", uri, op)

\* lockFile, called while other calls may be in flight.
StartLockFile(uri, op) ==
    IF Has(lockedFiles, uriToKey(uri))
        THEN /\ LockFileAlready(uri, op)
             /\ inflight' = Append(inflight, NewCall("lockFile", uriToKey(uri), TRUE))
        ELSE StartMutation("lockFile", uri, op)

\* unlockFile, called while other calls may be in flight.
StartUnlockFile(uri, op) ==
    IF ~Has(lockedFiles, uriToKey(uri))
        THEN /\ UnlockFileNotLocked(uri, op)
             /\ inflight' = Append(inflight, NewCall("unlockFile", uriToKey(uri), FALSE))
        ELSE StartMutation("unlockFile", uri, op)

\* toggleFileLock, called while other calls may be in flight.
StartToggleFileLock(uri, op) ==
    IF IsFileLocked(lockedFiles, uri)
        THEN StartUnlockFile(uri, op)
        ELSE StartLockFile(uri, op)

\* What a command that starts a call leaves alone.
Started ==
    /\ Len(inflight) < MaxCalls
    /\ Observed({})
    /\ UNCHANGED originalMode
    /\ UNCHANGED timerVars

\* command lockor.lockFile, returning at the call's first await
BeginLockFile ==
    /\ activeEditor # NoUri
    /\ StartLockFile(activeEditor, "lockor.lockFile")
    /\ UNCHANGED envVars
    /\ Started

\* command lockor.unlockFile, returning at the call's first await
BeginUnlockFile ==
    /\ activeEditor # NoUri
    /\ StartUnlockFile(activeEditor, "lockor.unlockFile")
    /\ UNCHANGED envVars
    /\ Started

\* command lockor.toggleLock, returning at the call's first await
BeginToggleLock ==
    \E arg \in Uris \cup {NoUri} :
        LET targetUri == IF arg # NoUri THEN arg ELSE activeEditor IN
        /\ targetUri # NoUri
        /\ StartToggleFileLock(targetUri, "lockor.toggleLock")
        /\ UNCHANGED envVars
        /\ Started

\* The user changes lockor.protectionLevel; the onDidChangeConfiguration
\* listener runs up to the first await of updateAllFilePermissions.
BeginLevelChange ==
    \E level \in Levels \ {protectionLevel} :
        LET c == NewCall("updateAllFilePermissions", "", level = "hard") IN
        \E pick \in Picks(c, World) :
            LET r == NextPath(c, World, level, pick) IN
            /\ protectionLevel' = level
            /\ UNCHANGED <<showNotifications, workspaceFolder, activeEditor>>
            /\ UNCHANGED <<lockedFiles, workspaceState>>
            /\ Written(r)
            /\ inflight' = Append(inflight, r.c)
            /\ last' = Report("onDidChangeConfiguration", "updateAllFilePermissions", "",
                              protectionLevel,
                              {"setFileReadOnly", "updateCursorRules",
                               "updateWorkspaceDiagnostics", "updateFileLockMarkers",
                               "updateWorkspaceStatus"},
                              EmptyBag, {})
            /\ Started

\* The environment returns the pending I/O of the i-th call, with success or,
\* while it has failures left to inject, with failure.
IoReturns(i) ==
    /\ i \in DOMAIN inflight
    /\ inflight[i].pc # "done"
    /\ \E ok \in (IF faultsLeft > 0 THEN BOOLEAN ELSE {TRUE}),
          pick \in Picks(inflight[i], World) :
           LET r == Resume(inflight[i], World, protectionLevel, ok, pick) IN
           /\ Written(r)
           /\ inflight' = [inflight EXCEPT ![i] = r.c]
           /\ faultsLeft' = IF ok THEN faultsLeft ELSE faultsLeft - 1
    /\ UNCHANGED <<lockedFiles, workspaceState, last, tracked, scenario, pattern, originalMode>>
    /\ UNCHANGED envVars
    /\ UNCHANGED timerVars

\* Some pending I/O returns.
SomeIoReturns == \E i \in 1..MaxCalls : IoReturns(i)

\* ------------------------------------------------------ debounce timers

Min(a, b) == IF a < b THEN a ELSE b
Max(a, b) == IF a > b THEN a ELSE b

\* A handle no pending timer and no map entry uses.
FreshHandle(ts, map) ==
    LET used == {t.id : t \in ts} \cup {map[p] : p \in Paths}
    IN  CHOOSE n \in 1..(Cardinality(used) + 1) :
            n \notin used /\ \A m \in 1..(n - 1) : m \in used

\* A clearTimeout that cancels every pending timer.
ClearTimeoutAll(ts, handle) == {}
\* A clearTimeout that cancels nothing.
ClearTimeoutNothing(ts, handle) == ts
\* clearTimeout(handle): the timer is no longer pending; clearing a timer
\* that has fired changes nothing.
ClearTimeout(ts, handle) == {t \in ts : t.id # handle}

\* setTimeout(callback, delay): one more pending timer; the callback keeps
\* the key and the protection level read when it was created.
SetTimeout(ts, handle, fileKey, level, delay) ==
    ts \cup {[id |-> handle, key |-> fileKey, remaining |-> delay, level |-> level]}

\* No edit seen yet for a path.
NoBurst == [age |-> -1, locked |-> TRUE, notifying |-> TRUE, warned |-> 0]

\* An edit to a path: it continues the burst under way when it comes less
\* than DebounceMs after the edit before it, and starts a burst otherwise.
\* locked: every edit of the burst found the path locked; notifying: every
\* edit of the burst found showNotifications on.
BurstEdit(b, isLocked, notify) ==
    IF b.age >= 0 /\ b.age < DebounceMs
        THEN [b EXCEPT !.age = 0, !.locked = @ /\ isLocked, !.notifying = @ /\ notify]
        ELSE [age |-> 0, locked |-> isLocked, notifying |-> notify, warned |-> 0]

\* A warning shown for a path: one more for its burst (counted up to two).
BurstWarned(b) == [b EXCEPT !.warned = Min(2, @ + 1)]

\* The onDidChangeTextDocument listener for a document; changes: whether
\* event.contentChanges is non-empty.
DidChangeTextDocument ==
    \E doc \in Uris, changes \in BOOLEAN :
        LET fileKey == doc.fsPath
            existingTimeout == notificationDebounce[fileKey]
            cleared == IF existingTimeout # 0
                          THEN ClearTimeout(timers, existingTimeout)
                          ELSE timers
            timeout == FreshHandle(cleared, [notificationDebounce EXCEPT ![fileKey] = 0])
        IN
        /\ IF IsFileLocked(lockedFiles, doc) /\ showNotifications /\ changes
              THEN /\ timers' = SetTimeout(cleared, timeout, fileKey, protectionLevel,
                                           DebounceMs)
                   /\ notificationDebounce' = [notificationDebounce EXCEPT ![fileKey] = timeout]
              ELSE UNCHANGED <<timers, notificationDebounce>>
        /\ burst' = IF changes
                        THEN [burst EXCEPT ![fileKey] =
                                 BurstEdit(@, IsFileLocked(lockedFiles, doc), showNotifications)]
                        ELSE burst
        /\ last' = Report("onDidChangeTextDocument", "none", fileKey,
                          IF changes THEN "edited" ELSE "no changes", {}, EmptyBag, {})
        /\ UNCHANGED progVars
        /\ UNCHANGED envVars
        /\ Monitored({})

\* A timer set by the change listener fires: the warning is shown with its
\* "Unlock File" button, and the map entry of the path is deleted.
TimerFires ==
    \E t \in timers :
        /\ t.remaining = 0
        /\ timers' = timers \ {t}
        /\ notificationDebounce' = [notificationDebounce EXCEPT ![t.key] = 0]
        /\ burst' = [burst EXCEPT ![t.key] = BurstWarned(@)]
        /\ last' = Report("setTimeout", "none", t.key, t.level, {}, EmptyBag,
                          {"is locked", "Unlock File"})
        /\ UNCHANGED progVars
        /\ UNCHANGED envVars
        /\ Monitored({})

\* TickMs milliseconds pass.  The host runs a timer when it is due, so time
\* does not pass while one is.
Tick ==
    /\ \A t \in timers : t.remaining > 0
    /\ \E p \in Paths : burst[p].age >= 0 /\ burst[p].age < DebounceMs
    /\ timers' = {[t EXCEPT !.remaining = Max(0, @ - TickMs)] : t \in timers}
    /\ burst' = [p \in Paths |->
                    IF burst[p].age >= 0
                        THEN [burst[p] EXCEPT !.age = Min(DebounceMs, @ + TickMs)]
                        ELSE burst[p]]
    /\ UNCHANGED <<notificationDebounce, last, faultsLeft, tracked, scenario, pattern>>
    /\ UNCHANGED stepVars
    /\ UNCHANGED progVars
    /\ UNCHANGED envVars

\* The extension is active: deactivate() has not been called since the last
\* activate().  The host disposes the subscriptions with the deactivation,
\* so no command or listener runs while this is false.
Active == last.op # "deactivate"

\* A deactivate that forgets the handles without cancelling the timers.
DeactivateClearsMapOnly ==
    /\ timers' = timers
    /\ notificationDebounce' = [p \in Paths |-> 0]
    /\ burst' = burst
    /\ last' = Report("deactivate", "none", "", "deactivated", {}, EmptyBag, {})
    /\ UNCHANGED progVars
    /\ UNCHANGED envVars
    /\ Monitored({})
\* deactivate(): clearTimeout for every handle in the map, then the map is
\* cleared.
Deactivate ==
    /\ timers' = {t \in timers :
                     \A p \in Paths : notificationDebounce[p] # 0
                                          => t \in ClearTimeout(timers, notificationDebounce[p])}
    /\ notificationDebounce' = [p \in Paths |-> 0]
    /\ burst' = burst
    /\ last' = Report("deactivate", "none", "", "deactivated", {}, EmptyBag, {})
    /\ UNCHANGED progVars
    /\ UNCHANGED envVars
    /\ Monitored({})

\* ------------------------------------------------------- specification

NoContext == [none |-> TRUE]

\* The state once activate() has returned: the manager has loaded the stored
\* array, and updateAIContext has run.  folders: whether a workspace folder is
\* open; faults: how many failures the environment will inject; modes: the
\* modes the files on disk may have.
ActivatedOver(folders, faults, modes) ==
    /\ workspaceState \in {[defined |-> FALSE, array |-> EmptyBag]}
                              \cup {[defined |-> TRUE, array |-> ArrayFrom(S)] : S \in SUBSET Paths}
    /\ lockedFiles = LoadLockedFiles(workspaceState)
    /\ protectionLevel \in Levels
    /\ showNotifications \in BOOLEAN
    /\ workspaceFolder \in folders
    /\ activeEditor \in Uris \cup {NoUri}
    /\ \E m \in modes : fileMode = [p \in Files |-> m]
    /\ originalMode = fileMode
    /\ inflight = << >>
    /\ ruleFile = Absent
    /\ statusFile = Absent
    /\ diagnostics = [p \in Paths |-> "none"]
    /\ aiContext = UpdateAIContext(NoContext, activeEditor, lockedFiles, protectionLevel)
    /\ faultsLeft = faults
    /\ last = Report("activate", "none", "", "activated", {"loadLockedFiles", "updateAIContext"},
                     EmptyBag, {})
    /\ tracked = SetFrom(Get(workspaceState, EmptyBag))
    /\ scenario = Idle
    /\ pattern = {}
    /\ timers = {}
    /\ notificationDebounce = [p \in Paths |-> 0]
    /\ burst = [p \in Paths |-> NoBurst]

\* The same, every file having mode 0666.
Activated(folders, faults) == ActivatedOver(folders, faults, InitModes)

\* A workspace folder is open and every environment call succeeds.
Init == Activated({TRUE}, 0)

\* The window is closed and opened again: deactivate() clears the timers,
\* the extension host goes with its diagnostics and context keys, and
\* activate() constructs a manager over the same workspace store.  The files
\* on disk, the store and the configuration stay.
Restart ==
    /\ lockedFiles' = LoadLockedFiles(workspaceState)
    /\ aiContext' = UpdateAIContext(NoContext, activeEditor, lockedFiles', protectionLevel)
    /\ diagnostics' = [p \in Paths |-> "none"]
    /\ timers' = {}
    /\ notificationDebounce' = [p \in Paths |-> 0]
    /\ last' = Report("activate", "none", "", "reactivated",
                      {"loadLockedFiles", "updateAIContext"}, EmptyBag, {})
    /\ tracked' = SetFrom(Get(workspaceState, EmptyBag))
    /\ scenario' = Idle
    /\ pattern' = PatternStep(last, last')
    /\ UNCHANGED <<workspaceState, fileMode, ruleFile, statusFile, faultsLeft, burst>>
    /\ UNCHANGED stepVars
    /\ UNCHANGED envVars

\* With or without a workspace folder, with failing environment calls, and
\* with no editor open: the commands get their target as an argument.
InitFaults == Activated(BOOLEAN, MaxFaults) /\ activeEditor = NoUri

Next ==
    \/ ExecLockFile
    \/ ExecUnlockFile
    \/ ExecToggleLock
    \/ ExecShowLockedFiles
    \/ ClickUnlockFile
    \/ ExecIsFileLocked
    \/ WillSaveTextDocument
    \/ ChangeConfiguration
    \/ ChangeActiveTextEditor

Spec == Init /\ [][Next]_vars

\* The handlers that change the lock state or the protection, and the query,
\* with failing environment calls.
NextFaults ==
    \/ ExecToggleLock
    \/ ExecIsFileLocked
    \/ ChangeConfiguration
    \/ Restart

SpecFaults == InitFaults /\ [][NextFaults]_vars

\* The queries of the command API and the restart, between locks, unlocks,
\* configuration changes and changes of the active editor.
NextApi ==
    \/ ExecToggleLock
    \/ ExecGetLockedFiles
    \/ ExecGetLockStatusInfo
    \/ ChangeConfiguration
    \/ ChangeActiveTextEditor
    \/ Restart

SpecApi == Init /\ [][NextApi]_vars

\* The edits to documents with no active editor tracked, the timers, the
\* notification switch and the warning's "Unlock File" button.
InitDebounce == Init /\ activeEditor = NoUri

NextDebounce ==
    \/ DidChangeTextDocument
    \/ TimerFires
    \/ Tick
    \/ ChangeShowNotifications
    \/ ClickUnlockFile

SpecDebounce == InitDebounce /\ [][NextDebounce]_vars

\* Every file on disk is locked and notifications are on when the extension
\* is activated.
InitTimers == InitDebounce /\ lockedFiles = Files /\ showNotifications

\* The timers between edits, unlocks by the quick pick, configuration
\* changes and deactivation.
NextTimers ==
    \/ Active /\ DidChangeTextDocument
    \/ Active /\ ExecShowLockedFiles
    \/ Active /\ ChangeConfiguration
    \/ Active /\ Deactivate
    \/ TimerFires
    \/ Tick

SpecTimers == InitTimers /\ [][NextTimers]_vars

\* Calls that overlap.  Nothing is locked and the store holds nothing at
\* activation, notifications are on and an editor is open; every I/O succeeds.
InitAsync ==
    /\ Init
    /\ ~workspaceState.defined
    /\ showNotifications
    /\ activeEditor # NoUri

NextAsync ==
    \/ BeginLockFile
    \/ BeginUnlockFile
    \/ BeginToggleLock
    \/ BeginLevelChange
    \/ SomeIoReturns

SpecAsync == InitAsync /\ [][NextAsync]_vars

\* Calls that overlap, with I/O that may fail and always returns: the pending
\* I/O of every call is returned at some time, which is what the host and
\* the filesystem owe the program.  The level is `hard`, under which a call
\* awaits stat and chmod besides the artifact writes.
InitAsyncFair ==
    /\ Activated({TRUE}, MaxFaults)
    /\ ~workspaceState.defined
    /\ showNotifications
    /\ protectionLevel = "hard"
    /\ activeEditor # NoUri

NextAsyncFair ==
    \/ BeginLockFile
    \/ BeginUnlockFile
    \/ BeginToggleLock
    \/ SomeIoReturns

SpecAsyncFair ==
    /\ InitAsyncFair
    /\ [][NextAsyncFair]_vars
    /\ \A i \in 1..MaxCalls : WF_vars(IoReturns(i))

\* Files of any mode, every environment call succeeding, no editor open:
\* locks and unlocks by the context menu, and configuration changes.
InitModesAny == ActivatedOver({TRUE}, 0, DiskModes) /\ activeEditor = NoUri

NextModes ==
    \/ ExecToggleLock
    \/ ChangeConfiguration

SpecModes == InitModesAny /\ [][NextModes]_vars

\* The same with a level that is never `hard`, neither at activation nor
\* after a configuration change.
InitSoft == InitModesAny /\ protectionLevel # "hard"

NextSoft ==
    \/ ExecToggleLock
    \/ ChangeLevelNotHard

SpecSoft == InitSoft /\ [][NextSoft]_vars


\* ----------------------------------------------------------------- claims

Blocking == {"ai-aware", "hard"}
IsSave(r) == r.op = "onWillSaveTextDocument"

\* C1: every save attempt on a document whose path is in the locked set, while
\* the protection level is `ai-aware` or `hard`, is vetoed (the listener hands
\* a rejecting promise to waitUntil and the host does not persist), whatever
\* showNotifications is.
C1_LockedSaveVetoed ==
    (IsSave(last) /\ last.key \in lockedFiles /\ protectionLevel \in Blocking)
        => (last.result = "rejected" /\ ~last.saved)

\* A save of a locked document vetoed under `hard` with notifications off.
C1_Witness ==
    /\ IsSave(last) /\ last.key \in lockedFiles
    /\ protectionLevel = "hard" /\ ~showNotifications
    /\ last.result = "rejected" /\ ~last.saved

\* C2: a save attempt is never vetoed when the document's path is not in the
\* locked set (under any level) or when the level is `soft`: nothing is handed
\* to waitUntil and the host persists the document.
C2_OtherSavesProceed ==
    (IsSave(last) /\ (last.key \notin lockedFiles \/ protectionLevel = "soft"))
        => (last.result = "none" /\ last.saved)

\* A save of a locked document that went through under `soft`.
C2_Witness ==
    /\ IsSave(last) /\ last.key \in lockedFiles /\ protectionLevel = "soft"
    /\ last.result = "none" /\ last.saved

\* C3: under `ai-aware`, in the sequence lock(p), isFileLocked(p), save(p),
\* unlock(p), save(p) the query returns true, the first save is rejected and
\* the save after the unlock goes through.
C3_Scenario == scenario.ok

\* The whole scenario has run, on a file on disk, with every outcome as claimed.
C3_Witness == scenario.stage = 5 /\ scenario.ok /\ scenario.key \in Files

\* C4: the save decision follows the level configured at the moment of the
\* save: on the first save of a locked document after the level changed from
\* `ai-aware` or `hard` to `soft` the save goes through, and after a change
\* from `soft` to `ai-aware` or `hard` it is vetoed, with nothing but the
\* configuration change in between.
C4_DecisionFollowsLevel ==
    [][(/\ last.op = "onDidChangeConfiguration"
        /\ last.call = "updateAllFilePermissions"
        /\ IsSave(last')
        /\ last'.key \in lockedFiles')
         => /\ (last.result \in Blocking /\ protectionLevel' = "soft")
                  => (last'.result = "none" /\ last'.saved)
            /\ (last.result = "soft" /\ protectionLevel' \in Blocking)
                  => (last'.result = "rejected" /\ ~last'.saved)]_vars

\* A locked document's save vetoed right after the level went from `soft` to
\* `ai-aware`.
C4_Witness ==
    /\ <<"change-save", "soft">> \in pattern
    /\ protectionLevel = "ai-aware"
    /\ last.key \in lockedFiles
    /\ last.result = "rejected"

\* C5: after lock(p) on a path not in the set, isLocked(p) holds and the array
\* handed to the store under lockor.lockedFiles holds p exactly once, together
\* with every path locked before; the store keeps that array unless its update
\* was rejected.
C5_LockAddsAndPersists ==
    (last.call = "lockFile" /\ last.key \notin last.before)
        => /\ IsFileLocked(lockedFiles, UriOf(last.key))
           /\ "saveLockedFiles" \in last.calls
           /\ Count(last.written, last.key) = 1
           /\ \A q \in last.before : Count(last.written, q) = 1
           /\ \A q \in Paths : Count(last.written, q) <= 1
           /\ last.stored => Stored(last, workspaceState)

\* A path locked while another one was locked already, and the store holding both.
C5_Witness ==
    /\ last.call = "lockFile" /\ last.key \notin last.before
    /\ last.before # {}
    /\ last.stored
    /\ Count(workspaceState.array, last.key) = 1
    /\ \A q \in last.before : Count(workspaceState.array, q) = 1


\* C6: lock(p) on a path already in the set is a no-op with a notice: the set
\* still holds p exactly once, the call reports "already locked", and it makes
\* no persistence write, no permission change, no artifact regeneration and no
\* observer notification.
C6_RelockIsNoOp ==
    [][(last'.call = "lockFile" /\ last'.key \in lockedFiles)
         => /\ last'.result = "already locked"
            /\ "is already locked" \in last'.messages
            /\ last'.calls = {}
            /\ Count(GetLockedFiles(lockedFiles'), last'.key) = 1
            /\ UNCHANGED progVars]_vars

\* A lock call answered "already locked".
C6_Witness ==
    /\ last.call = "lockFile" /\ last.key \in last.before
    /\ last.result = "already locked"
    /\ last.key \in lockedFiles

\* C7: after lock(p) followed by unlock(p), isLocked(p) is false, the array
\* handed to the store (and the store, unless its update was rejected) no
\* longer holds p, and every other path is in the set exactly if it was
\* before the lock.
C7_LockThenUnlock ==
    [][(last.call = "lockFile" /\ last'.call = "unlockFile" /\ last'.key = last.key)
         => /\ ~IsFileLocked(lockedFiles', UriOf(last'.key))
            /\ "saveLockedFiles" \in last'.calls
            /\ Count(last'.written, last'.key) = 0
            /\ last'.stored => /\ Stored(last', workspaceState')
                               /\ Count(workspaceState'.array, last'.key) = 0
            /\ \A q \in Paths \ {last'.key} :
                   /\ (q \in lockedFiles') <=> (q \in last.before)
                   /\ (Count(last'.written, q) = 1) <=> (q \in last.before)]_vars

\* lock(p) then unlock(p) with another path locked throughout.
C7_Witness ==
    /\ <<"lock-unlock", last.key>> \in pattern
    /\ last.result = "unlocked"
    /\ last.key \notin lockedFiles
    /\ lockedFiles # {}
    /\ Stored(last, workspaceState)

\* C8: unlock(p) on a path that is not in the set reports "not locked" and
\* changes nothing: the set, the store, the file permissions and the
\* artifacts stay as they are and no observer is notified.
C8_UnlockUnlockedIsNoOp ==
    [][(last'.call = "unlockFile" /\ last'.key \notin lockedFiles)
         => /\ last'.result = "not locked"
            /\ "is not locked" \in last'.messages
            /\ last'.calls = {}
            /\ UNCHANGED progVars]_vars

\* An unlock call answered "not locked".
C8_Witness ==
    /\ last.call = "unlockFile" /\ last.key \notin last.before
    /\ last.result = "not locked"

IsToggle(r) == r.op = "lockor.toggleLock" /\ r.call # "none"

\* C9: toggle(p) locks p when it is unlocked and unlocks it when it is locked,
\* leaving every other path as it is; two toggles of p in a row restore the
\* membership of p and of every other path.
C9_ToggleTwice ==
    [][/\ IsToggle(last')
          => /\ (last'.key \in lockedFiles)
                   => (last'.call = "unlockFile" /\ last'.key \notin lockedFiles')
             /\ (last'.key \notin lockedFiles)
                   => (last'.call = "lockFile" /\ last'.key \in lockedFiles')
             /\ lockedFiles' \ {last'.key} = lockedFiles \ {last'.key}
       /\ (IsToggle(last) /\ IsToggle(last') /\ last'.key = last.key)
          => lockedFiles' = last.before]_vars

\* Two toggles of a locked path, back to locked, beside another locked path.
C9_Witness ==
    /\ <<"toggle-toggle", last.key>> \in pattern
    /\ last.call = "lockFile"
    /\ last.key \in lockedFiles
    /\ lockedFiles # {last.key}

\* C10: isLocked(p) is false for every path that was neither loaded from the
\* store nor locked since, or that has been unlocked since, the empty string
\* included; the query returns a boolean and changes no state.
C10_UnlockedIsFalse ==
    /\ \A p \in Paths \ tracked : ~IsFileLocked(lockedFiles, UriOf(p))
    /\ [][/\ \A p \in Paths \ tracked' : ~IsFileLocked(lockedFiles', UriOf(p))
          /\ last'.call = "isFileLocked"
                => /\ last'.returned \in BOOLEAN
                   /\ last'.key \notin tracked => ~last'.returned
                   /\ UNCHANGED <<progVars, envVars>>]_vars

\* The query answering false for the empty path after it was locked and
\* unlocked again, while another path is locked.
C10_Witness ==
    /\ last.call = "isFileLocked" /\ last.key = ""
    /\ ~last.returned
    /\ diagnostics[""] # "none"
    /\ lockedFiles # {}


WriteBits == {S_IWUSR, S_IWGRP, S_IWOTH}
\* stat and chmod of the handler's own path both succeeded.
PermissionCallsSucceeded(r) ==
    /\ r.key \in Files
    /\ <<"stat", r.key>> \notin r.failed
    /\ <<"chmod", r.key>> \notin r.failed

\* C11: under `hard`, with stat and chmod succeeding, a lock(p) that locks p
\* leaves p without its owner, group and other write bits, and an unlock(p)
\* that unlocks p leaves p with its owner write bit.
C11_HardTogglesWriteBits ==
    (protectionLevel = "hard" /\ PermissionCallsSucceeded(last))
        => /\ (last.call = "lockFile" /\ last.result = "locked")
                 => \A bit \in WriteBits : ~HasBit(fileMode[last.key], bit)
           /\ (last.call = "unlockFile" /\ last.result = "unlocked")
                 => HasBit(fileMode[last.key], S_IWUSR)

\* Under `hard`, lock(p) then unlock(p) took a file from 0666 to 0644: the
\* lock cleared all three write bits, the unlock gave the owner's back.
C11_Witness ==
    /\ protectionLevel = "hard"
    /\ \E p \in Files : /\ <<"lock-unlock", p>> \in pattern
                        /\ last.key = p /\ last.result = "unlocked"
                        /\ fileMode[p] = 420

\* C12: getLockedFiles returns the locked set as it is when called: every
\* locked path once, nothing else, in no particular order; with two paths
\* locked it has two elements, and whatever lock or unlock came before the
\* call is reflected in it.
C12_GetLockedFilesIsLive ==
    last.call = "getLockedFiles"
        => /\ SetFrom(last.list) = lockedFiles
           /\ \A p \in Paths : Count(last.list, p) = (IF p \in lockedFiles THEN 1 ELSE 0)
           /\ BagCardinality(last.list) = Cardinality(lockedFiles)

\* The query answered with two elements: the two paths locked at that moment.
C12_Witness ==
    /\ last.call = "getLockedFiles"
    /\ BagCardinality(last.list) = 2
    /\ Cardinality(SetFrom(last.list)) = 2
    /\ SetFrom(last.list) = lockedFiles

\* C13: getLockStatusInfo reports for the active document canAIModify = (the
\* document is not locked or the level is `soft`): false for a locked
\* document under `ai-aware` or `hard`, true under `soft`, true for an
\* unlocked document; and totalLockedFiles is the size of the locked set.
C13_CanAIModify ==
    last.call = "getLockStatusInfo"
        => /\ last.info.totalLockedFiles = Cardinality(lockedFiles)
           /\ activeEditor # NoUri
                 => LET f == last.info.activeFile
                        locked == activeEditor.fsPath \in lockedFiles
                    IN  /\ f.canAIModify = (~locked \/ protectionLevel = "soft")
                        /\ (locked /\ protectionLevel \in Blocking) => ~f.canAIModify
                        /\ (locked /\ protectionLevel = "soft") => f.canAIModify
                        /\ ~locked => f.canAIModify

\* The info for a locked active document under `soft`: the AI may modify it,
\* with two files locked.
C13_Witness ==
    /\ last.call = "getLockStatusInfo"
    /\ activeEditor # NoUri
    /\ protectionLevel = "soft"
    /\ last.info.activeFile.isLocked
    /\ last.info.activeFile.canAIModify
    /\ last.info.totalLockedFiles = 2

\* The timers pending for a path.
Pending(p) == {t \in timers : t.key = p}
\* This step is a debounce timer firing, that is, a warning being shown.
WarningShown == last'.op = "setTimeout" /\ Cardinality(timers') < Cardinality(timers)

\* C14: trailing-edge debounce.  For every burst of edits to one locked
\* document, each edit less than DebounceMs after the one before: at most one
\* warning is shown for the burst, it is shown no sooner than DebounceMs
\* after the last edit, and at every moment at most one timer is pending for
\* the path.
C14_TrailingEdgeDebounce ==
    /\ [](\A p \in Paths : /\ Cardinality(Pending(p)) <= 1
                           /\ burst[p].locked => burst[p].warned <= 1)
    /\ [][(WarningShown /\ burst[last'.key].locked)
             => burst[last'.key].age >= DebounceMs]_vars

\* The same, for the bursts whose every edit found showNotifications on.
C14_DebounceWhileNotifying ==
    /\ [](\A p \in Paths :
              /\ Cardinality(Pending(p)) <= 1
              /\ (burst[p].locked /\ burst[p].notifying) => burst[p].warned <= 1)
    /\ [][(WarningShown /\ burst[last'.key].locked /\ burst[last'.key].notifying)
             => burst[last'.key].age >= DebounceMs]_vars

\* The one warning of a burst of edits to a locked file, shown DebounceMs
\* after the burst's last edit.
C14_Witness ==
    /\ last.op = "setTimeout" /\ last.key \in Files
    /\ burst[last.key].locked /\ burst[last.key].notifying
    /\ burst[last.key].warned = 1
    /\ burst[last.key].age = DebounceMs
    /\ Pending(last.key) = {}

\* C15: lock state survives a restart.  The manager constructed over the
\* workspace store holds exactly the paths of the stored array, which is the
\* array the previous manager wrote last; with nothing stored the set is
\* empty; construction does not throw; and, every update having been taken
\* by the store, the new manager's set is the old manager's.
C15_SurvivesRestart ==
    /\ [](last.op = "activate"
             => /\ \A p \in Paths :
                       (p \in lockedFiles) <=> (Count(Get(workspaceState, EmptyBag), p) > 0)
                /\ ~workspaceState.defined => lockedFiles = {}
                /\ ~last.rejected
                /\ lockedFiles = last.before)
    /\ [][(last.call \in {"lockFile", "unlockFile"} /\ last.stored /\ last'.op = "activate")
             => lockedFiles' = SetFrom(last.written)]_vars

\* A restart right after a lock whose array the store took: the new manager
\* holds the two paths the old one held, and has published nothing yet.
C15_Witness ==
    /\ last.op = "activate" /\ last.result = "reactivated"
    /\ \E k \in Paths : <<"write-restart", k>> \in pattern /\ k \in lockedFiles
    /\ Cardinality(lockedFiles) = 2
    /\ \A p \in Paths : diagnostics[p] = "none"

\* A lock that locked or an unlock that unlocked.
IsMutation(r) ==
    \/ r.call = "lockFile" /\ r.result = "locked"
    \/ r.call = "unlockFile" /\ r.result = "unlocked"

\* C16: when workspaceState.update rejects, lock(p) and unlock(p) neither
\* throw nor reject, and the change made in memory stays: isLocked(p) is true
\* after the lock and false after the unlock, and through the session the
\* set holds exactly the paths loaded or locked and not unlocked since,
\* whatever the store took.
C16_UpdateFailureIsNotFatal ==
    /\ (IsMutation(last) /\ <<"update", "*">> \in last.failed)
          => /\ ~last.rejected
             /\ ~last.stored
             /\ IsFileLocked(lockedFiles, UriOf(last.key)) <=> (last.call = "lockFile")
    /\ \A p \in Paths : IsFileLocked(lockedFiles, UriOf(p)) <=> (p \in tracked)

\* isFileLocked answering true for a file the store does not hold: its lock
\* was kept in memory though the update was rejected.
C16_Witness ==
    /\ last.call = "isFileLocked" /\ last.key \in Files
    /\ last.returned
    /\ Count(Get(workspaceState, EmptyBag), last.key) = 0

\* The rule or status document as a regeneration leaves it.
Regenerated(set, level) == IF set = {} THEN Absent ELSE Document(set, level)

\* C17: what follows the set mutation is best-effort.  Whether stat or chmod
\* fails, or one document cannot be written, or no workspace folder is open,
\* lock and unlock complete without throwing, the set keeps its change, and
\* every artifact not itself failing is regenerated: a diagnostic is
\* published for each locked path, and the rule and the status document are
\* each rewritten (or deleted) when a folder is open and their own write
\* succeeds.
C17_SideEffectsAreBestEffort ==
    IsMutation(last)
        => /\ ~last.rejected
           /\ IsFileLocked(lockedFiles, UriOf(last.key)) <=> (last.call = "lockFile")
           /\ lockedFiles \ {last.key} = last.before \ {last.key}
           /\ {"updateCursorRules", "updateWorkspaceDiagnostics", "updateWorkspaceStatus"}
                  \subseteq last.calls
           /\ \A p \in lockedFiles : diagnostics[p] # "none"
           /\ (workspaceFolder /\ <<"writeRule", "*">> \notin last.failed)
                  => ruleFile = Regenerated(lockedFiles, protectionLevel)
           /\ (workspaceFolder /\ <<"writeStatus", "*">> \notin last.failed)
                  => statusFile = Regenerated(lockedFiles, protectionLevel)
           /\ ~workspaceFolder => (ruleFile = Absent /\ statusFile = Absent)

\* A lock under which the rule document could not be written: the path is
\* locked, and the diagnostics and the status document were still produced.
C17_Witness ==
    /\ last.call = "lockFile" /\ last.result = "locked"
    /\ <<"writeRule", "*">> \in last.failed
    /\ last.key \in lockedFiles
    /\ ruleFile = Absent
    /\ diagnostics[last.key] # "none"
    /\ statusFile = Document(lockedFiles, protectionLevel)

\* The configuration listener has just run updateAllFilePermissions.
LevelChanged(r) == r.op = "onDidChangeConfiguration" /\ r.call = "updateAllFilePermissions"

ListsExactly(doc, set, level) ==
    /\ \A p \in Paths : (AsRelativePath(p) \in doc.files) <=> (p \in set)
    /\ Cardinality(doc.files) = Cardinality(set)
    /\ \A l \in Levels : (doc.level = ToUpperCase(l)) <=> (l = level)

\* C19: after each lock that locked or unlock that unlocked, run on its own
\* with a workspace folder open and the writes succeeding, the rule document
\* and the status document exist exactly when the locked set is not empty,
\* and then list exactly the locked paths and the current protection level;
\* the unlock of the last locked path deletes both.
C19_DocumentsProjectTheSet ==
    (IsMutation(last) /\ workspaceFolder /\ last.failed = {})
        => /\ ruleFile.exists <=> (lockedFiles # {})
           /\ statusFile.exists <=> (lockedFiles # {})
           /\ ruleFile.exists => ListsExactly(ruleFile, lockedFiles, protectionLevel)
           /\ statusFile.exists => ListsExactly(statusFile, lockedFiles, protectionLevel)

\* The path locked by the handler before has been unlocked and no path is
\* locked any more: the two documents the lock wrote are gone.
C19_Witness ==
    /\ <<"lock-unlock", last.key>> \in pattern
    /\ last.result = "unlocked"
    /\ lockedFiles = {}
    /\ ~ruleFile.exists /\ ~statusFile.exists

\* C20: after any sequence of completed locks and unlocks the diagnostics
\* Lockor has published are exactly one, at position (0,0), for each locked
\* file, and none for a file that is no longer locked.
C20_DiagnosticsMatchTheSet ==
    IsMutation(last)
        => \A p \in Paths : diagnostics[p] = (IF p \in lockedFiles THEN "one" ELSE "none")

\* C26: the context keys track the current state.  After any sequence of
\* locks, unlocks, changes of the active editor and changes of the protection
\* level, lockor.fileUntouchable is true exactly when the active document is
\* locked and the level is `ai-aware` or `hard`, lockor.protectionLevel is the
\* configured level, and lockor.currentFileLocked is isLocked(active document).
C26_ContextTracksState ==
    LET locked == activeEditor # NoUri /\ IsFileLocked(lockedFiles, activeEditor) IN
    /\ aiContext.fileUntouchable = (locked /\ protectionLevel \in Blocking)
    /\ aiContext.protectionLevel = protectionLevel
    /\ aiContext.currentFileLocked = locked

\* C25: under `soft` and `ai-aware` Lockor changes no permission: through any
\* sequence of locks, unlocks and configuration changes in which the level
\* is never `hard`, every file keeps the mode it had.
C25_NoChmodOutsideHard == fileMode = originalMode

\* C29: permission changes touch write bits only.  Under `hard`, a lock(p)
\* that locks followed by the unlock(p) that unlocks leaves p with the mode
\* it had, its group and other write bits cleared and its owner write bit
\* set; and no lock, unlock or level change alters a read, execute or other
\* non-write bit of any file.
C29_OnlyWriteBitsTouched ==
    /\ [](\A p \in Files : \A bit \in ModeBits \ WriteBits :
              HasBit(fileMode[p], bit) <=> HasBit(originalMode[p], bit))
    /\ [][(/\ protectionLevel = "hard"
           /\ last.call = "lockFile" /\ last.result = "locked"
           /\ last'.call = "unlockFile" /\ last'.result = "unlocked"
           /\ last'.key = last.key /\ last.key \in Files)
             => \A bit \in ModeBits :
                    HasBit(fileMode'[last.key], bit)
                        <=> \/ bit = S_IWUSR
                            \/ bit \notin WriteBits /\ HasBit(originalMode[last.key], bit)]_vars

\* Under `hard`, lock(p) then unlock(p) took a file from 0777 to 0755.
C29_Witness ==
    /\ protectionLevel = "hard"
    /\ \E p \in Files : /\ <<"lock-unlock", p>> \in pattern
                        /\ last.key = p /\ last.result = "unlocked"
                        /\ originalMode[p] = 511
                        /\ fileMode[p] = 493

\* C21: on deactivation every pending debounce timer is cancelled and the
\* timer map is emptied, so that no warning is shown after deactivate() has
\* returned, whatever edits came before.
C21_DeactivateCancelsTimers ==
    /\ [](~Active => (timers = {} /\ \A p \in Paths : notificationDebounce[p] = 0))
    /\ [][~Active => last'.op # "setTimeout"]_vars

\* Deactivated less than DebounceMs after an edit to a locked file, and
\* DebounceMs have passed since that edit: its warning was never shown.
C21_Witness ==
    /\ ~Active
    /\ \E p \in Files : /\ burst[p].locked /\ burst[p].notifying
                        /\ burst[p].age = DebounceMs
                        /\ burst[p].warned = 0

\* This step is the change listener run for an edit with content changes (the
\* clock leaves no burst at age 0).
EditStep ==
    /\ last'.op = "onDidChangeTextDocument" /\ last'.result = "edited"
    /\ burst'[last'.key].age = 0

\* C27: debounce timers are keyed per document path.  An edit to one document
\* leaves the pending timer and the map entry of every other document as
\* they are, so that documents edited within each other's quiet interval
\* have one pending timer each, and each gets its warning.
C27_TimersKeyedPerPath ==
    /\ [](\A p \in Paths :
              (burst[p].age >= 0 /\ burst[p].locked /\ burst[p].notifying)
                  => IF burst[p].age < DebounceMs
                        THEN Cardinality(Pending(p)) = 1 /\ burst[p].warned = 0
                        ELSE \/ burst[p].warned = 1 /\ Pending(p) = {}
                             \/ burst[p].warned = 0 /\ \E t \in Pending(p) : t.remaining = 0)
    /\ [][EditStep
             => \A q \in Paths \ {last'.key} :
                    /\ {t \in timers' : t.key = q} = Pending(q)
                    /\ notificationDebounce'[q] = notificationDebounce[q]]_vars

\* The warning of one locked document has just been shown, DebounceMs after
\* its edit, while the timer of another one, edited TickMs later, is pending.
C27_Witness ==
    /\ last.op = "setTimeout"
    /\ burst[last.key].locked /\ burst[last.key].notifying /\ burst[last.key].warned = 1
    /\ \E q \in Paths \ {last.key} :
           /\ burst[q].locked /\ burst[q].notifying /\ burst[q].warned = 0
           /\ \E t \in Pending(q) : t.remaining = DebounceMs - TickMs

CallStarts == Len(inflight') = Len(inflight) + 1
\* Every call started has completed.
AllDone == \A i \in DOMAIN inflight : inflight[i].pc = "done"

\* C22: lock, unlock and toggle calls that overlap act on the set and on the
\* store as if they ran one after the other in the order they started.  The
\* step that starts a call tests membership, changes the set and hands the
\* new set to the store at once, against the set as the calls started before
\* it left it, whether or not they have completed: a lock of a locked path
\* reports "already locked" and changes nothing, a toggle inverts membership;
\* no step in which pending I/O returns touches the set or the store; and the
\* store, once written, always holds the set.
C22_OverlappingCallsSerialize ==
    /\ [](workspaceState.defined => SetFrom(workspaceState.array) = lockedFiles)
    /\ [][IF CallStarts /\ last'.call \in {"lockFile", "unlockFile"}
              THEN LET k == last'.key
                       was == k \in lockedFiles
                       now == CASE last'.op = "lockor.lockFile" -> TRUE
                                [] last'.op = "lockor.unlockFile" -> FALSE
                                [] last'.op = "lockor.toggleLock" -> ~was
                   IN  /\ lockedFiles' = IF now THEN lockedFiles \cup {k}
                                                ELSE lockedFiles \ {k}
                       /\ IF now = was
                              THEN workspaceState' = workspaceState
                              ELSE /\ workspaceState'.defined
                                   /\ workspaceState'.array = ArrayFrom(lockedFiles')
                       /\ last'.result = IF now
                                             THEN IF was THEN "already locked" ELSE "locked"
                                             ELSE IF was THEN "unlocked" ELSE "not locked"
              ELSE /\ lockedFiles' = lockedFiles
                   /\ workspaceState' = workspaceState]_vars

\* Two toggles of one path are both suspended at an await, the second
\* started while the first was in flight, and the path is unlocked again.
C22_Witness ==
    /\ Len(inflight) = 2
    /\ inflight[1].call = "lockFile" /\ inflight[1].pc # "done"
    /\ inflight[2].call = "unlockFile" /\ inflight[2].pc # "done"
    /\ inflight[2].key = inflight[1].key
    /\ inflight[2].overlapped
    /\ last.op = "lockor.toggleLock"
    /\ lockedFiles = {}
    /\ workspaceState.defined /\ workspaceState.array = EmptyBag

\* Some call started while another was in flight.
Overlapped == \E i \in DOMAIN inflight : inflight[i].overlapped

\* The mode of p agrees with the lock state: no write bit when p is locked
\* under `hard`, the owner's write bit otherwise.
PermissionAgrees(p) ==
    IF p \in lockedFiles /\ protectionLevel = "hard"
        THEN \A b \in WriteBits : ~HasBit(fileMode[p], b)
        ELSE HasBit(fileMode[p], S_IWUSR)

\* C23: once nothing is in flight, with every stat and chmod succeeding, a
\* file that was owner-writable before Lockor touched it has no write bit when
\* it is locked under `hard`, and its owner write bit when it is unlocked or
\* the level is not `hard`, in whatever order the calls overlapped and their
\* filesystem calls returned.
C23_PermissionsAgreeWhenQuiet ==
    AllDone => \A p \in Files : HasBit(originalMode[p], S_IWUSR) => PermissionAgrees(p)

\* Calls that never overlap leave the permissions in agreement.
PermissionsAgreeWithoutOverlap ==
    (AllDone /\ ~Overlapped)
        => \A p \in Files : HasBit(originalMode[p], S_IWUSR) => PermissionAgrees(p)

\* The document lists exactly the locked set, and is absent when it is empty.
ListsLockedSet(doc) ==
    /\ doc.exists <=> lockedFiles # {}
    /\ doc.files = {AsRelativePath(p) : p \in lockedFiles}

\* C24: once every call has completed, the rule document and the status
\* document list exactly the locked set and are absent when it is empty, in
\* whatever order the calls overlapped and their writes and deletes returned.
C24_ArtifactsNotStale ==
    AllDone => ListsLockedSet(ruleFile) /\ ListsLockedSet(statusFile)

\* Calls that never overlap leave the documents listing the locked set.
ArtifactsFreshWithoutOverlap ==
    (AllDone /\ ~Overlapped) => ListsLockedSet(ruleFile) /\ ListsLockedSet(statusFile)

\* C30: provided every host and filesystem call returns, with success or with
\* failure, every call of lockFile, unlockFile and toggleFileLock that has
\* started completes (a completed call stays completed and at most MaxCalls
\* calls start, so that is: from some time on every call started has
\* completed), and its promise never rejects; and no call waits for another:
\* as long as a call has not completed, its pending I/O can return, whatever
\* the other calls are doing.
C30_CallsComplete ==
    /\ [](\A i \in DOMAIN inflight : ~inflight[i].rejected)
    /\ [](\A i \in DOMAIN inflight : inflight[i].pc # "done" => ENABLED IoReturns(i))
    /\ <>[]AllDone

\* A lock or an unlock has completed although its stat or its chmod failed,
\* while a call that started before it is still suspended.
C30_Witness ==
    /\ Len(inflight) >= 2
    /\ inflight[1].pc # "done"
    /\ inflight[2].call \in {"lockFile", "unlockFile"}
    /\ inflight[2].pc = "done"
    /\ inflight[2].mode = 0
    /\ inflight[2].visited # {}
    /\ faultsLeft = 0

=========================================================================
